---- MODULE Spec2Model ----
(***************************************************************************)
(* A model of ninehill/mse_fmp4: the bit-level reader and writer of        *)
(* src/io.rs, the SPS parser, the AVC configuration record writer and the  *)
(* Annex-B NAL unit splitter of src/avc.rs, and the HEVC configuration     *)
(* record writer of src/hvc.rs.                                            *)
(*                                                                         *)
(* Every component has its own specification over the one set of           *)
(* variables; the variables of the other components stay at their idle     *)
(* values.  Byte sinks are in-memory vectors (as in the tests of           *)
(* src/io.rs): a write to them never fails.  Integers of the model are     *)
(* below 2^31; u8 arithmetic is kept to its width with % 256.              *)
(***************************************************************************)
EXTENDS Integers, Sequences, FiniteSets, TLC

VARIABLES
    \* src/io.rs: one AvcBitWriter, one AvcBitReader over the bytes it wrote
    writer,      \* AvcBitWriter {stream, byte, bit_position}
    reader,      \* AvcBitReader {stream, byte, bit_offset}
    phase,       \* "write": the writer is in use; "read": flushed, the reader is in use
    wlog,        \* history: the write calls made, each with the writer before it
    rlog,        \* history: the read calls made, each with what it returned
    \* src/avc.rs: SpsSummary::read_from, width(), height()
    sps_input,   \* the bytes handed to read_from
    sps_ret,     \* what read_from returned
    build,       \* "debug" (overflow checks on) or "release" (wrapping)
    width_ret,   \* what width() returned
    height_ret,  \* what height() returned
    \* src/avc.rs: AvcDecoderConfigurationRecord::write_to
    avc_rec,     \* the record
    avc_sink,    \* the bytes the sink received
    avc_ret,     \* what write_to returned
    \* src/avc.rs: ByteStreamFormatNalUnits
    nal_buf,     \* the buffer handed to new
    nal_iter,    \* the iterator: {state, bytes}
    nal_units,   \* history: the slices next() yielded
    nal_codes,   \* history: the lengths of the start codes skipped
    \* src/hvc.rs: HvcDecoderConfigurationRecord::write_to
    hvc_rec,     \* the record
    hvc_sink,    \* the bytes the sink received
    hvc_ret      \* what write_to returned

ioVars  == <<writer, reader, phase, wlog, rlog>>
spsVars == <<sps_input, sps_ret, build, width_ret, height_ret>>
avcVars == <<avc_rec, avc_sink, avc_ret>>
nalVars == <<nal_buf, nal_iter, nal_units, nal_codes>>
hvcVars == <<hvc_rec, hvc_sink, hvc_ret>>
vars    == <<ioVars, spsVars, avcVars, nalVars, hvcVars>>

(***************************************************************************)
(* Machine arithmetic                                                      *)
(***************************************************************************)
Min(a, b) == IF a < b THEN a ELSE b

RECURSIVE BitAnd(_, _)
\* a & b
BitAnd(a, b) ==
    IF a = 0 \/ b = 0 THEN 0
    ELSE (a % 2) * (b % 2) + 2 * BitAnd(a \div 2, b \div 2)

RECURSIVE BitOr(_, _)
\* a | b
BitOr(a, b) ==
    IF a = 0 THEN b
    ELSE IF b = 0 THEN a
    ELSE (IF a % 2 = 1 \/ b % 2 = 1 THEN 1 ELSE 0) + 2 * BitOr(a \div 2, b \div 2)

\* (x << k) on a u8: the bits shifted out are dropped
Shl8(x, k) == (x * 2^k) % 256

\* x >> k
Shr(x, k) == x \div 2^k

\* Rust's a % b on signed integers: the remainder has the sign of a
RemT(a, b) == IF a >= 0 THEN a % b ELSE -((-a) % b)

\* The bits of one byte, most significant first
ByteBits(b) == [k \in 1..8 |-> Shr(b, 8 - k) % 2]

RECURSIVE BytesBits(_)
\* The bits of a byte sequence, most significant bit of each byte first
BytesBits(bytes) ==
    IF bytes = <<>> THEN <<>> ELSE ByteBits(Head(bytes)) \o BytesBits(Tail(bytes))

(***************************************************************************)
(* src/io.rs: AvcBitWriter                                                 *)
(***************************************************************************)
\* AvcBitWriter::new
NewWriter == [stream |-> <<>>, byte |-> 0, bit_position |-> 0]

\* stream.write_u8(byte) when the byte filled up, else keep it pending
Emit(w, byte, pos) ==
    IF pos = 8
    THEN [stream |-> Append(w.stream, byte), byte |-> 0, bit_position |-> 0]
    ELSE [stream |-> w.stream, byte |-> byte, bit_position |-> pos]

\* AvcBitWriter::write_bit
write_bit(w, value) ==
    LET b == Shl8(value, 8 - w.bit_position - 1)
    IN Emit(w, BitOr(w.byte, b), w.bit_position + 1)

\* AvcBitWriter::write_bool
write_bool(w, value) == write_bit(w, IF value THEN 1 ELSE 0)

\* AvcBitWriter::write_byte
write_byte(w, value) ==
    [stream |-> Append(w.stream, value), byte |-> 0, bit_position |-> 0]

\* The four bytes of a u32, index 0 the most significant:
\* ((value & FIRST_U32_BYTE) >> 24) as u8, ...
U32Byte(value, i) == Shr(value, 8 * (3 - i)) % 256

RECURSIVE wnb_while(_, _, _)
\* write_n_bits: the loop  while remaining_bits > 0
wnb_while(w, byte, remaining_bits) ==
    IF remaining_bits = 0 THEN w
    ELSE LET available_bits == 8 - w.bit_position
             bits_to_use == Min(available_bits, remaining_bits)
             mask_shift == remaining_bits - bits_to_use
             \* bits_to_use is below 8 here (the aligned whole byte returned earlier)
             mask == Shl8((2^bits_to_use - 1) % 256, mask_shift)
             push_value == Shl8(Shr(BitAnd(byte, mask), mask_shift),
                                8 - w.bit_position - bits_to_use)
         IN wnb_while(Emit(w, BitOr(w.byte, push_value), w.bit_position + bits_to_use),
                      byte, remaining_bits - bits_to_use)

RECURSIVE wnb_for(_, _, _, _, _)
\* write_n_bits: the loop  for i in start_index..4
wnb_for(w, i, start_index, n, value) ==
    IF i >= 4 THEN w
    ELSE LET nn == IF i = start_index /\ n # 8 THEN n % 8 ELSE 8
             byte == U32Byte(value, i)
         IN IF w.bit_position = 0 /\ nn = 8
            THEN [w EXCEPT !.stream = Append(@, byte)]   \* write_u8(byte); return Ok(())
            ELSE wnb_for(wnb_while(w, byte, nn), i + 1, start_index, n, value)

\* AvcBitWriter::write_n_bits, n <= 32
write_n_bits(w, n, value) ==
    LET bytes_needed == (n + 7) \div 8    \* (n as f64 / 8.0).ceil() as u32
        start_index == 4 - bytes_needed
    IN wnb_for(w, start_index, start_index, n, value)

RECURSIVE ue_bucket(_, _, _)
\* write_ue: the loop  for i in 0..15, giving bits and cuml
ue_bucket(value, i, cuml) ==
    IF i >= 15 THEN [bits |-> 0, cuml |-> cuml]
    ELSE IF value < cuml + 2^i THEN [bits |-> i, cuml |-> cuml]
    ELSE ue_bucket(value, i + 1, cuml + 2^i)

\* AvcBitWriter::write_ue
write_ue(w, value) ==
    LET s == ue_bucket(value, 0, 0)
        w1 == write_n_bits(w, s.bits, 0)
        w2 == write_bit(w1, 1)
    IN write_n_bits(w2, s.bits, value - s.cuml)

\* AvcBitWriter::write_se
write_se(w, value) ==
    write_ue(w, IF value > 0 THEN value * 2 - 1 ELSE (-value) * 2)

\* A plausible slip: the pending byte is sent whether or not it holds bits
flush_always(w) == [w EXCEPT !.stream = Append(@, w.byte)]

\* AvcBitWriter::flush
flush(w) ==
    IF w.bit_position > 0 THEN [w EXCEPT !.stream = Append(@, w.byte)] ELSE w

(***************************************************************************)
(* src/io.rs: AvcBitReader.  A read returns {ok, val, rd}: ok is FALSE     *)
(* for an I/O error (the stream ran out), rd is the reader afterwards.     *)
(***************************************************************************)
\* AvcBitReader::new
NewReader(stream) == [stream |-> stream, byte |-> 0, bit_offset |-> 8]

IoErr(r) == [ok |-> FALSE, val |-> 0, rd |-> r]

\* AvcBitReader::read_bit
read_bit(r) ==
    IF r.bit_offset = 8 /\ r.stream = <<>> THEN IoErr(r)
    ELSE LET r1 == IF r.bit_offset = 8
                   THEN [stream |-> Tail(r.stream), byte |-> Head(r.stream), bit_offset |-> 0]
                   ELSE r
         IN [ok |-> TRUE,
             val |-> Shr(r1.byte, 7 - r1.bit_offset) % 2,
             rd |-> [r1 EXCEPT !.bit_offset = @ + 1]]

\* AvcBitReader::read_byte
read_byte(r) ==
    IF r.stream = <<>> THEN IoErr([r EXCEPT !.bit_offset = 0])
    ELSE [ok |-> TRUE,
          val |-> Head(r.stream),
          rd |-> [stream |-> Tail(r.stream), byte |-> Head(r.stream), bit_offset |-> 0]]

RECURSIVE egc_zeros(_, _)
\* read_exp_golomb_code: the loop  while 0 == read_bit()
egc_zeros(r, leading_zeros) ==
    LET b == read_bit(r)
    IN IF ~b.ok THEN b
       ELSE IF b.val = 0 THEN egc_zeros(b.rd, leading_zeros + 1)
       ELSE [ok |-> TRUE, val |-> leading_zeros, rd |-> b.rd]

RECURSIVE egc_suffix(_, _, _)
\* read_exp_golomb_code: the loop  for _ in 0..leading_zeros
egc_suffix(r, k, n) ==
    IF k = 0 THEN [ok |-> TRUE, val |-> n, rd |-> r]
    ELSE LET b == read_bit(r)
         IN IF ~b.ok THEN b ELSE egc_suffix(b.rd, k - 1, 2 * n + b.val)

\* AvcBitReader::read_exp_golomb_code
read_exp_golomb_code(r) ==
    LET z == egc_zeros(r, 0)
    IN IF ~z.ok THEN z
       ELSE LET s == egc_suffix(z.rd, z.val, 0)
            IN IF ~s.ok THEN s
               ELSE [ok |-> TRUE, val |-> s.val + 2^z.val - 1, rd |-> s.rd]

\* AvcBitReader::read_ue
read_ue(r) == read_exp_golomb_code(r)

\* A plausible slip: the magnitude rounded down (code_num / 2 on integers)
read_se_floor(r) ==
    LET c == read_exp_golomb_code(r)
    IN IF ~c.ok THEN c
       ELSE [c EXCEPT !.val = (IF (c.val + 1) % 2 = 0 THEN 1 ELSE -1) * (c.val \div 2)]

\* AvcBitReader::read_se
read_se(r) ==
    LET c == read_exp_golomb_code(r)
    IN IF ~c.ok THEN c
       ELSE [c EXCEPT !.val = (IF (c.val + 1) % 2 = 0 THEN 1 ELSE -1) * ((c.val + 1) \div 2)]

(***************************************************************************)
(* Idle values of the components a specification does not run              *)
(***************************************************************************)
IoIdle ==
    /\ writer = NewWriter
    /\ reader = NewReader(<<>>)
    /\ phase = "idle"
    /\ wlog = <<>>
    /\ rlog = <<>>

NoRet == [kind |-> "none"]

SpsIdle ==
    /\ sps_input = [syntax |-> NoRet, bytes |-> <<>>]
    /\ sps_ret = NoRet
    /\ build = "debug"
    /\ width_ret = NoRet
    /\ height_ret = NoRet

AvcIdle ==
    /\ avc_rec = NoRet
    /\ avc_sink = <<>>
    /\ avc_ret = NoRet

NalIdle ==
    /\ nal_buf = <<>>
    /\ nal_iter = [state |-> "none", bytes |-> <<>>]
    /\ nal_units = <<>>
    /\ nal_codes = <<>>

HvcIdle ==
    /\ hvc_rec = NoRet
    /\ hvc_sink = <<>>
    /\ hvc_ret = NoRet

(***************************************************************************)
(* The bit writer and reader in use: write calls on a fresh writer, one    *)
(* flush, a reader opened on the bytes written, read calls.                *)
(***************************************************************************)
MaxSmallUe == 40       \* every value up to here is written
MaxUeExp == 17         \* and the bucket borders 2^k - 2, 2^k - 1, 2^k up to this k
UeClaimMax == 100000   \* the range of the round trip claimed: 0..=100000
MaxUeWrites == 2       \* write_ue calls made back to back
MaxNBitsWrites == 2    \* write_bit / write_n_bits calls in a row
MaxNBits == 32         \* n of write_n_bits: 0..=32

UeValues ==
    (0..MaxSmallUe)
    \cup {v \in UNION {{2^k - 2, 2^k - 1, 2^k} : k \in 1..MaxUeExp} : v <= UeClaimMax}
    \cup {UeClaimMax}

\* u32 values (below 2^31) with every byte distinct, and all ones
NBitsValues == {0, 255, 43981, 703710, 305419896, 1515870810, 2147483647}

IoInit ==
    /\ writer = NewWriter
    /\ reader = NewReader(<<>>)
    /\ phase = "write"
    /\ wlog = <<>>
    /\ rlog = <<>>

\* One write call: the writer becomes w2, and the call is logged
WriteStep(op, n, value, w2) ==
    /\ phase = "write"
    /\ writer' = w2
    /\ wlog' = Append(wlog, [op |-> op, n |-> n, value |-> value, pre |-> writer])
    /\ UNCHANGED <<reader, phase, rlog>>
    /\ UNCHANGED <<spsVars, avcVars, nalVars, hvcVars>>

\* One read call returning r
ReadStep(op, r) ==
    /\ phase = "read"
    /\ reader' = r.rd
    /\ rlog' = Append(rlog, [op |-> op, ok |-> r.ok, val |-> r.val])
    /\ UNCHANGED <<writer, phase, wlog>>
    /\ UNCHANGED <<spsVars, avcVars, nalVars, hvcVars>>

\* writer.flush()
Flush ==
    /\ phase = "write"
    /\ writer' = flush(writer)
    /\ phase' = "flushed"
    /\ UNCHANGED <<reader, wlog, rlog>>
    /\ UNCHANGED <<spsVars, avcVars, nalVars, hvcVars>>

\* AvcBitReader::new(buffer.as_slice())
OpenReader ==
    /\ phase = "flushed"
    /\ reader' = NewReader(writer.stream)
    /\ phase' = "read"
    /\ UNCHANGED <<writer, wlog, rlog>>
    /\ UNCHANGED <<spsVars, avcVars, nalVars, hvcVars>>

\* writer.write_ue(v)
WriteUe ==
    /\ Len(wlog) < MaxUeWrites
    /\ \E v \in UeValues : WriteStep("write_ue", 0, v, write_ue(writer, v))

\* reader.read_ue(), once per value written
ReadUe ==
    /\ Len(rlog) < Len(wlog)
    /\ ReadStep("read_ue", read_ue(reader))

\* writer.write_bit(b)
WriteBit ==
    /\ Len(wlog) < MaxNBitsWrites
    /\ \E b \in 0..1 : WriteStep("write_bit", 1, b, write_bit(writer, b))

\* writer.write_n_bits(n, value)
WriteNBits ==
    /\ Len(wlog) < MaxNBitsWrites
    /\ \E n \in 0..MaxNBits, value \in NBitsValues :
           WriteStep("write_n_bits", n, value, write_n_bits(writer, n, value))

\* The bits the writer holds: the bytes it sent, then its pending bits
WriterBits(w) == BytesBits(w.stream) \o SubSeq(ByteBits(w.byte), 1, w.bit_position)

\* The low n bits of value, most significant first
LowBits(n, value) == [k \in 1..n |-> Shr(value, n - k) % 2]

(***************************************************************************)
(* Specification of the Exp-Golomb round trip (tests::test_ue): values     *)
(* written back to back with write_ue, one flush, the values read back.    *)
(***************************************************************************)
UeInit == IoInit /\ SpsIdle /\ AvcIdle /\ NalIdle /\ HvcIdle
UeNext == WriteUe \/ Flush \/ OpenReader \/ ReadUe
SpecUe == UeInit /\ [][UeNext]_vars

(***************************************************************************)
(* Specification of the bit-field writes: write_bit and write_n_bits calls *)
(* in a row on a fresh writer, which reach every bit position.             *)
(***************************************************************************)
NBitsInit == IoInit /\ SpsIdle /\ AvcIdle /\ NalIdle /\ HvcIdle
NBitsNext == WriteBit \/ WriteNBits
SpecNBits == NBitsInit /\ [][NBitsNext]_vars

\* C2: every value in 0..=100000 written with write_ue (back to back with
\* others), flushed and read with read_ue in the same order, is read back
\* unchanged.
C2_UeRoundTrip ==
    \A i \in 1..Len(rlog) :
        (wlog[i].op = "write_ue" /\ rlog[i].op = "read_ue")
            => (rlog[i].ok /\ rlog[i].val = wlog[i].value)

\* C3: write_n_bits(n, value), at every bit position, appends exactly the low
\* n bits of value, most significant first, and advances the position by n.
C3_NBitsAppendsLowBits ==
    \A i \in 1..Len(wlog) :
        wlog[i].op = "write_n_bits" =>
            LET pre == wlog[i].pre
                post == IF i = Len(wlog) THEN writer ELSE wlog[i + 1].pre
            IN /\ WriterBits(post) = WriterBits(pre) \o LowBits(wlog[i].n, wlog[i].value)
               /\ post.bit_position = (pre.bit_position + wlog[i].n) % 8

(***************************************************************************)
(* src/avc.rs: ByteStreamFormatNalUnits                                    *)
(***************************************************************************)
\* slice.starts_with(prefix)
StartsWith(bytes, prefix) ==
    Len(bytes) >= Len(prefix) /\ SubSeq(bytes, 1, Len(prefix)) = prefix

\* &bytes[k..]
SliceFrom(bytes, k) == SubSeq(bytes, k + 1, Len(bytes))

\* ByteStreamFormatNalUnits::new: ok is FALSE for Err(InvalidInput)
nal_new(bytes) ==
    IF StartsWith(bytes, <<0, 0, 1>>) THEN [ok |-> TRUE, bytes |-> SliceFrom(bytes, 3)]
    ELSE IF StartsWith(bytes, <<0, 0, 0, 1>>) THEN [ok |-> TRUE, bytes |-> SliceFrom(bytes, 4)]
    ELSE [ok |-> FALSE, bytes |-> <<>>]

RECURSIVE nal_find(_, _)
\* next: the loop  for i in 0..self.bytes.len(), giving nal_unit_end and next_start
nal_find(bytes, i) ==
    IF i >= Len(bytes) THEN [nal_unit_end |-> Len(bytes), next_start |-> Len(bytes)]
    ELSE IF StartsWith(SliceFrom(bytes, i), <<0, 0, 0, 1>>)
         THEN [nal_unit_end |-> i, next_start |-> i + 4]
    ELSE IF StartsWith(SliceFrom(bytes, i), <<0, 0, 1>>)
         THEN [nal_unit_end |-> i, next_start |-> i + 3]
    ELSE nal_find(bytes, i + 1)

\* A plausible slip: every start code found is skipped as a 3-byte one
nal_next_skip3(bytes) ==
    LET f == nal_find(bytes, 0)
    IN [some |-> bytes # <<>>,
        nal_unit |-> SubSeq(bytes, 1, f.nal_unit_end),
        code_len |-> Min(f.next_start - f.nal_unit_end, 3),
        bytes |-> SliceFrom(bytes, f.nal_unit_end + Min(f.next_start - f.nal_unit_end, 3))]

\* Iterator::next of ByteStreamFormatNalUnits: some is FALSE for None;
\* code_len is the length of the start code skipped after the unit
nal_next(bytes) ==
    LET f == nal_find(bytes, 0)
    IN [some |-> bytes # <<>>,
        nal_unit |-> SubSeq(bytes, 1, f.nal_unit_end),
        code_len |-> f.next_start - f.nal_unit_end,
        bytes |-> SliceFrom(bytes, f.next_start)]

MaxNalLen == 9     \* the longest buffer handed to the splitter

\* 0xAA stands for every byte that is neither 00 nor 01
NalByte == {0, 1, 170}

RECURSIVE SeqsUpTo(_, _)
\* The sequences over S of length at most n
SeqsUpTo(S, n) ==
    IF n = 0 THEN {<<>>}
    ELSE LET shorter == SeqsUpTo(S, n - 1)
         IN shorter \cup {Append(q, x) : q \in {t \in shorter : Len(t) = n - 1}, x \in S}

NalInit ==
    /\ nal_buf \in SeqsUpTo(NalByte, MaxNalLen)
    /\ nal_iter = [state |-> "none", bytes |-> <<>>]
    /\ nal_units = <<>>
    /\ nal_codes = <<>>
    /\ IoIdle /\ SpsIdle /\ AvcIdle /\ HvcIdle

\* ByteStreamFormatNalUnits::new(buf) returning Ok
NalNewOk ==
    /\ nal_iter.state = "none"
    /\ nal_new(nal_buf).ok
    /\ nal_iter' = [state |-> "iter", bytes |-> nal_new(nal_buf).bytes]
    /\ nal_codes' = <<Len(nal_buf) - Len(nal_new(nal_buf).bytes)>>
    /\ UNCHANGED <<nal_buf, nal_units>>
    /\ UNCHANGED <<ioVars, spsVars, avcVars, hvcVars>>

\* ByteStreamFormatNalUnits::new(buf) returning Err(InvalidInput)
NalNewErr ==
    /\ nal_iter.state = "none"
    /\ ~nal_new(nal_buf).ok
    /\ nal_iter' = [state |-> "err", bytes |-> <<>>]
    /\ UNCHANGED <<nal_buf, nal_units, nal_codes>>
    /\ UNCHANGED <<ioVars, spsVars, avcVars, hvcVars>>

\* next() returning Some(nal_unit)
NalNextSome ==
    /\ nal_iter.state = "iter"
    /\ nal_next(nal_iter.bytes).some
    /\ nal_iter' = [state |-> "iter", bytes |-> nal_next(nal_iter.bytes).bytes]
    /\ nal_units' = Append(nal_units, nal_next(nal_iter.bytes).nal_unit)
    /\ nal_codes' = Append(nal_codes, nal_next(nal_iter.bytes).code_len)
    /\ UNCHANGED nal_buf
    /\ UNCHANGED <<ioVars, spsVars, avcVars, hvcVars>>

\* next() returning None
NalNextNone ==
    /\ nal_iter.state = "iter"
    /\ ~nal_next(nal_iter.bytes).some
    /\ nal_iter' = [state |-> "done", bytes |-> nal_iter.bytes]
    /\ UNCHANGED <<nal_buf, nal_units, nal_codes>>
    /\ UNCHANGED <<ioVars, spsVars, avcVars, hvcVars>>

NalNext == NalNewOk \/ NalNewErr \/ NalNextSome \/ NalNextNone
SpecNal == NalInit /\ [][NalNext]_vars

\* A start code of the given length (none for length 0)
StartCode(len) == IF len = 4 THEN <<0, 0, 0, 1>> ELSE IF len = 3 THEN <<0, 0, 1>> ELSE <<>>

\* bytes holds the pattern 00 00 01 somewhere
HasStartCode(bytes) == \E i \in 0..Len(bytes) : StartsWith(SliceFrom(bytes, i), <<0, 0, 1>>)

RECURSIVE Reassemble(_, _)
\* code 1, unit 1, code 2, unit 2, ..., and the last code
Reassemble(codes, units) ==
    IF units = <<>> THEN StartCode(Head(codes))
    ELSE StartCode(Head(codes)) \o Head(units) \o Reassemble(Tail(codes), Tail(units))

C14_UnitsNonEmpty ==
    \A k \in 1..Len(nal_units) : nal_units[k] # <<>>

\* The buffer starts with two adjacent start codes and next() has yielded
C14_Witness ==
    /\ Len(nal_units) >= 1
    /\ Len(nal_codes) >= 2
    /\ nal_codes[2] \in {3, 4}
    /\ nal_units[1] = <<>>

(***************************************************************************)
(* Byte-level writes to the sink: the macros write_u8!, write_u16!,        *)
(* write_u32! and write_all! (big-endian, as the container format has it). *)
(***************************************************************************)
\* v as u8
AsU8(v) == v % 256

U16Range == 65536   \* the number of values of a u16

\* v as u16
AsU16(v) == v % U16Range

\* write_u8!(writer, v)
WriteU8(sink, v) == Append(sink, v)

\* write_u16!(writer, v)
WriteU16(sink, v) == sink \o <<Shr(v, 8) % 256, v % 256>>

\* write_u32!(writer, v)
WriteU32(sink, v) == sink \o <<Shr(v, 24) % 256, Shr(v, 16) % 256, Shr(v, 8) % 256, v % 256>>

\* write_all!(writer, bytes)
WriteAll(sink, bytes) == sink \o bytes

(***************************************************************************)
(* src/hvc.rs: HvcDecoderConfigurationRecord::write_to                     *)
(***************************************************************************)
RECURSIVE ShrBytes(_, _)
\* v >> (8 * k)
ShrBytes(v, k) == IF k = 0 THEN v ELSE ShrBytes(v \div 256, k - 1)

\* v.to_be_bytes() of a u64
U64BeBytes(v) == [k \in 1..8 |-> ShrBytes(v, 8 - k) % 256]

\* The byte after avg_frame_rate
HvcRatePack(r) ==
    BitOr(BitOr(BitOr(Shl8(BitAnd(r.constant_frame_rate, 3), 6),
                      Shl8(BitAnd(r.num_temporal_layers, 7), 3)),
                Shl8(r.temporal_id_nested, 2)),
          BitAnd(r.length_size_minus_one, 3))

\* One parameter-set array: NAL unit type, count 1, length, bytes
HvcArray(sink, nal_type, data) ==
    WriteAll(WriteU16(WriteU16(WriteU8(sink, BitAnd(nal_type, 63)), 1), AsU16(Len(data))), data)

\* HvcDecoderConfigurationRecord::write_to: the bytes sent to the sink
HvcWriteTo(r) ==
    LET s1 == WriteU8(<<>>, 1)
        s2 == WriteU8(s1, BitOr(BitOr(BitAnd(Shl8(r.general_profile_space, 6), 192),
                                      BitAnd(Shl8(r.general_tier_flag, 5), 32)),
                                BitAnd(r.general_profile_idc, 31)))
        s3 == WriteU32(s2, r.general_profile_compatibility_flags)
        s4 == WriteAll(s3, SubSeq(U64BeBytes(r.general_constraint_indicator_flags), 1, 6))
        s5 == WriteU8(s4, r.general_level_idc)
        s6 == WriteU16(s5, BitAnd(r.min_spatial_segmentation_idc, 4095))
        s7 == WriteU8(s6, BitAnd(r.parallelism_type, 3))
        s8 == WriteU8(s7, BitAnd(r.chroma_format_idc, 3))
        s9 == WriteU8(s8, BitAnd(r.bit_depth_luma_minus8, 7))
        s10 == WriteU8(s9, BitAnd(r.bit_depth_chroma_minus8, 15))
        s11 == WriteU16(s10, r.avg_frame_rate)
        s12 == WriteU8(s11, HvcRatePack(r))
        s13 == WriteU8(s12, 2)
        s14 == HvcArray(s13, 32, r.vps_data)
        s15 == HvcArray(s14, 33, r.sps_data)
    IN HvcArray(s15, 34, r.pps_data)

MaxHvcField == 8    \* the four packed fields range over 0..MaxHvcField and 255
U8Max == 255
HvcRatePackAt == 22 \* the place in the record of the byte after avg_frame_rate

HvcFieldValues == (0..MaxHvcField) \cup {U8Max}

HvcRecords ==
    [kind : {"hvc"},
     general_profile_space : {1},
     general_tier_flag : {1},
     general_profile_idc : {2, 33},
     general_profile_compatibility_flags : {1610612736},
     general_constraint_indicator_flags : {305419896},
     general_level_idc : {93},
     min_spatial_segmentation_idc : {4097},
     parallelism_type : {5},
     chroma_format_idc : {1},
     bit_depth_luma_minus8 : {2},
     bit_depth_chroma_minus8 : {18},
     avg_frame_rate : {7680},
     constant_frame_rate : HvcFieldValues,
     num_temporal_layers : HvcFieldValues,
     temporal_id_nested : HvcFieldValues,
     length_size_minus_one : HvcFieldValues,
     sps_data : {<<66, 1>>},
     pps_data : {<<68>>},
     vps_data : {<<>>, <<64, 1, 12>>}]

HvcInit ==
    /\ hvc_rec \in HvcRecords
    /\ hvc_sink = <<>>
    /\ hvc_ret = NoRet
    /\ IoIdle /\ SpsIdle /\ AvcIdle /\ NalIdle

\* record.write_to(&mut sink)
HvcWrite ==
    /\ hvc_ret.kind = "none"
    /\ hvc_sink' = HvcWriteTo(hvc_rec)
    /\ hvc_ret' = [kind |-> "ok"]
    /\ UNCHANGED hvc_rec
    /\ UNCHANGED <<ioVars, spsVars, avcVars, nalVars>>

HvcNext == HvcWrite
SpecHvc == HvcInit /\ [][HvcNext]_vars

\* C10: the byte after avg_frame_rate holds constant_frame_rate in bits 7-6,
\* num_temporal_layers in bits 5-3, temporal_id_nested in bit 2 only and
\* length_size_minus_one in bits 1-0: each group is the low bits of its own
\* field, whatever the other fields are.
C10_HvcRatePackFields ==
    hvc_ret.kind = "ok" =>
        LET b == hvc_sink[HvcRatePackAt]
        IN /\ Shr(b, 6) % 4 = hvc_rec.constant_frame_rate % 4
           /\ Shr(b, 3) % 8 = hvc_rec.num_temporal_layers % 8
           /\ Shr(b, 2) % 2 = hvc_rec.temporal_id_nested % 2
           /\ b % 4 = hvc_rec.length_size_minus_one % 4

(***************************************************************************)
(* src/avc.rs: AvcDecoderConfigurationRecord::write_to.  The result is     *)
(* {sink, ret}: the bytes the sink received and what the call returned,    *)
(* Ok(()), Err(Unsupported), or a panic that unwinds through the caller.   *)
(***************************************************************************)
\* match self.profile_idc { 100 | 110 | 122 | 144 => ..
IsHighProfile(profile_idc) == profile_idc \in {100, 110, 122, 144}

\* The part written for every profile
AvcHeader(r) ==
    LET s1 == WriteU8(<<>>, 1)
        s2 == WriteU8(s1, r.profile_idc)
        s3 == WriteU8(s2, r.constraint_set_flag)
        s4 == WriteU8(s3, r.level_idc)
        s5 == WriteU8(s4, BitOr(252, 3))
        s6 == WriteU8(s5, BitOr(224, 1))
        s7 == WriteU16(s6, AsU16(Len(r.sequence_parameter_set)))
        s8 == WriteAll(s7, r.sequence_parameter_set)
        s9 == WriteU8(s8, 1)
        s10 == WriteU16(s9, AsU16(Len(r.picture_parameter_set)))
    IN WriteAll(s10, r.picture_parameter_set)

\* The bit-level part, extended configuration data given
AvcExtBits(e, sink) ==
    LET w0 == [stream |-> sink, byte |-> 0, bit_position |-> 0]
        w1 == write_ue(w0, e.chroma_format)
        w2 == IF e.chroma_format = 3
              THEN write_bool(w1, e.separate_color_plane = "Some(true)")
              ELSE w1
        w3 == write_ue(w2, e.bit_depth_luma_minus_8)
        w4 == write_ue(w3, e.bit_depth_chroma_minus_8)
        w5 == write_bool(w4, e.qp_prime_y_zero_transform_bypass)
        w6 == write_bool(w5, FALSE)
    IN IF e.chroma_format = 3 /\ e.separate_color_plane = "None"
       THEN [sink |-> w1.stream, ret |-> [kind |-> "panic", error |-> "none"]]
       ELSE [sink |-> flush(w6).stream, ret |-> [kind |-> "ok", error |-> "none"]]

\* A plausible slip: a high-profile record without extended data is written
\* without its extended section
AvcExtendedSilent(r, sink) ==
    IF ~r.extended_configuration_data.some
    THEN [sink |-> sink, ret |-> [kind |-> "ok", error |-> "none"]]
    ELSE AvcExtBits(r.extended_configuration_data, sink)

\* The arm of the high profiles
AvcExtended(r, sink) ==
    IF ~r.extended_configuration_data.some
    THEN [sink |-> sink, ret |-> [kind |-> "err", error |-> "Unsupported"]]
    ELSE AvcExtBits(r.extended_configuration_data, sink)

\* AvcDecoderConfigurationRecord::write_to
AvcWriteTo(r) ==
    IF IsHighProfile(r.profile_idc)
    THEN AvcExtended(r, AvcHeader(r))
    ELSE [sink |-> AvcHeader(r), ret |-> [kind |-> "ok", error |-> "none"]]

MaxChromaFormat == 3   \* chroma_format ranges over 0..MaxChromaFormat
MaxBitDepth == 2       \* the bit depth offsets range over 0..MaxBitDepth

\* Option<ExtendedConfigurationData>: None (some is FALSE) ..
ExtNone ==
    [some |-> FALSE, chroma_format |-> 0, separate_color_plane |-> "None",
     bit_depth_luma_minus_8 |-> 0, bit_depth_chroma_minus_8 |-> 0,
     qp_prime_y_zero_transform_bypass |-> FALSE]

\* .. or Some(data); the scaling lists of the data are not read by write_to
ExtSome ==
    [some : {TRUE}, chroma_format : 0..MaxChromaFormat,
     separate_color_plane : {"None", "Some(true)", "Some(false)"},
     bit_depth_luma_minus_8 : 0..MaxBitDepth, bit_depth_chroma_minus_8 : {0, MaxBitDepth},
     qp_prime_y_zero_transform_bypass : BOOLEAN]

\* Parameter sets of a few bytes, and one of 2^16 bytes
ShortSets == {<<>>, <<104, 206, 60, 128>>}
LongSet == [k \in 1..U16Range |-> 103]

AvcRecords ==
    [kind : {"avc"}, profile_idc : {66, 77, 100, 110, 122, 144},
     constraint_set_flag : {192}, level_idc : {31},
     sequence_parameter_set : ShortSets, picture_parameter_set : ShortSets,
     extended_configuration_data : {ExtNone} \cup ExtSome]
    \cup
    [kind : {"avc"}, profile_idc : {66, 100},
     constraint_set_flag : {192}, level_idc : {31},
     sequence_parameter_set : {LongSet}, picture_parameter_set : {<<104>>},
     extended_configuration_data : {ExtNone}]

AvcInit ==
    /\ avc_rec \in AvcRecords
    /\ avc_sink = <<>>
    /\ avc_ret = NoRet
    /\ IoIdle /\ SpsIdle /\ NalIdle /\ HvcIdle

\* record.write_to(&mut sink)
AvcWrite ==
    /\ avc_ret.kind = "none"
    /\ avc_sink' = AvcWriteTo(avc_rec).sink
    /\ avc_ret' = AvcWriteTo(avc_rec).ret
    /\ UNCHANGED avc_rec
    /\ UNCHANGED <<ioVars, spsVars, nalVars, hvcVars>>

AvcNext == AvcWrite
SpecAvc == AvcInit /\ [][AvcNext]_vars

\* The value of the 16-bit big-endian field at bytes[at], bytes[at + 1]
U16At(bytes, at) == bytes[at] * 256 + bytes[at + 1]

\* Where the PPS count byte lies when the SPS is written whole
PpsAt(r) == 9 + Len(r.sequence_parameter_set)

\* C5: the bytes sent to the sink begin with 01, profile_idc,
\* constraint_set_flag, level_idc, FF, E1, the 16-bit big-endian SPS length,
\* the SPS, 01, the 16-bit big-endian PPS length, the PPS; each length field
\* is the number of bytes of the buffer after it; for a profile outside
\* {100, 110, 122, 144} nothing else is written and the call returns Ok.
C5_AvcRecordLayout ==
    avc_ret.kind # "none" =>
        LET sps == avc_rec.sequence_parameter_set
            pps == avc_rec.picture_parameter_set
        IN /\ Len(avc_sink) >= 11 + Len(sps) + Len(pps)
           /\ SubSeq(avc_sink, 1, 6) =
                  <<1, avc_rec.profile_idc, avc_rec.constraint_set_flag, avc_rec.level_idc, 255, 225>>
           /\ U16At(avc_sink, 7) = Len(sps)
           /\ SubSeq(avc_sink, 9, 8 + Len(sps)) = sps
           /\ avc_sink[PpsAt(avc_rec)] = 1
           /\ U16At(avc_sink, PpsAt(avc_rec) + 1) = Len(pps)
           /\ SubSeq(avc_sink, PpsAt(avc_rec) + 3, PpsAt(avc_rec) + 2 + Len(pps)) = pps
           /\ ~IsHighProfile(avc_rec.profile_idc) =>
                  (avc_ret.kind = "ok" /\ Len(avc_sink) = 11 + Len(sps) + Len(pps))

\* C6: write_to on a record with profile_idc in {100, 110, 122, 144} and no
\* extended configuration data returns Err(Unsupported), and sends no
\* extended section to the sink.
C6_HighProfileNeedsExtData ==
    (avc_ret.kind # "none" /\ IsHighProfile(avc_rec.profile_idc)
        /\ ~avc_rec.extended_configuration_data.some)
    => /\ avc_ret = [kind |-> "err", error |-> "Unsupported"]
       /\ avc_sink = AvcHeader(avc_rec)

\* C6 witness: write_to has returned for a profile 100 record without the data
C6_Witness ==
    /\ avc_ret.kind = "err"
    /\ avc_rec.profile_idc = 100
    /\ ~avc_rec.extended_configuration_data.some

\* C7: write_to on a high-profile record with chroma_format 3 and no
\* separate_color_plane returns the error Unsupported to its caller, as for
\* missing extended data.
C7_MissingColorPlaneIsError ==
    (avc_ret.kind # "none" /\ IsHighProfile(avc_rec.profile_idc)
        /\ avc_rec.extended_configuration_data.some
        /\ avc_rec.extended_configuration_data.chroma_format = 3
        /\ avc_rec.extended_configuration_data.separate_color_plane = "None")
    => avc_ret = [kind |-> "err", error |-> "Unsupported"]

\* write_to failed on a high-profile record without extended data
MissingExtendedData ==
    /\ avc_ret = [kind |-> "err", error |-> "Unsupported"]
    /\ IsHighProfile(avc_rec.profile_idc)
    /\ ~avc_rec.extended_configuration_data.some

\* C16: when write_to fails because a high-profile record lacks extended
\* data, the sink is as it was before the call (empty): no byte is written
\* before the error is returned.
C16_SinkUnchangedOnError ==
    MissingExtendedData => avc_sink = <<>>

\* write_to has failed on such a record
C16_Witness == MissingExtendedData /\ avc_rec.profile_idc = 100

(***************************************************************************)
(* src/avc.rs: SpsSummary::read_from.  The parse threads a state st =      *)
(* {rd, err, f, mark, sl_4x4, sl_8x8, sl_default_4x4_flag,                 *)
(* sl_default_8x8_flag}: the bit reader, the error that ended the parse    *)
(* ("none" while it runs), the syntax elements read so far, for each the   *)
(* bit positions where its read began and ended, and the scaling lists.    *)
(* After an error every step leaves st alone (the ? operator returned).    *)
(***************************************************************************)
DEFAULT_4X4_INTRA_SCALING_LIST ==
    <<6, 13, 13, 20, 20, 20, 28, 28, 28, 28, 32, 32, 32, 32, 37, 37>>

DEFAULT_4X4_INTER_SCALING_LIST ==
    <<10, 14, 14, 20, 20, 20, 24, 24, 24, 24, 27, 27, 27, 30, 30, 34>>

DEFAULT_8X8_INTRA_SCALING_LIST ==
    <<6, 10, 10, 13, 11, 13, 16, 16, 16, 16, 18, 18, 18, 18, 18, 23,
      23, 23, 23, 23, 23, 25, 25, 25, 25, 25, 25, 25, 27, 27, 27, 27,
      27, 27, 27, 27, 29, 29, 29, 29, 29, 29, 29, 31, 31, 31, 31, 31,
      31, 33, 33, 33, 33, 33, 36, 36, 36, 36, 38, 38, 38, 40, 40, 42>>

DEFAULT_8X8_INTER_SCALING_LIST ==
    <<9, 13, 13, 15, 13, 15, 17, 17, 17, 17, 19, 19, 19, 19, 19, 21,
      21, 21, 21, 21, 21, 22, 22, 22, 22, 22, 22, 22, 24, 24, 24, 24,
      24, 24, 24, 24, 25, 25, 25, 25, 25, 25, 25, 27, 27, 27, 27, 27,
      27, 28, 28, 28, 28, 28, 30, 30, 30, 30, 32, 32, 32, 33, 33, 35>>

\* SpsSummary::default_scaling_list_for_index
default_scaling_list_for_index(index) ==
    IF index < 3 THEN DEFAULT_4X4_INTRA_SCALING_LIST
    ELSE IF index < 6 THEN DEFAULT_4X4_INTER_SCALING_LIST
    ELSE IF index % 2 = 0 THEN DEFAULT_8X8_INTRA_SCALING_LIST
    ELSE DEFAULT_8X8_INTER_SCALING_LIST

\* The syntax elements read_from reads
SpsFieldNames ==
    {"seq_parameter_set_id", "chroma_format", "bit_depth_luma_minus_8",
     "bit_depth_chroma_minus_8", "qp_prime_y_zero_transform_bypass",
     "seq_scaling_matrix_present", "log2_max_frame_num_minus4", "pic_order_cnt_type",
     "log2_max_pic_order_cnt_lsb_minus4", "delta_pic_order_always_zero_flag",
     "offset_for_non_ref_pic", "offset_for_top_to_bottom_field",
     "num_ref_frames_in_pic_order_cnt_cycle", "num_ref_frames",
     "gaps_in_frame_num_value_allowed_flag", "pic_width_in_mbs_minus_1",
     "pic_height_in_map_units_minus_1", "frame_mbs_only_flag",
     "mb_adaptive_frame_field_flag", "direct_8x8_inference_flag", "frame_cropping_flag",
     "frame_crop_left_offset", "frame_crop_right_offset", "frame_crop_top_offset",
     "frame_crop_bottom_offset"}

\* The bits the reader has consumed of a stream of nbytes bytes
BitPos(rd, nbytes) == 8 * (nbytes - Len(rd.stream)) - (8 - rd.bit_offset)

\* The parse state when the bit reader is made
SpsStart(stream) ==
    [rd |-> NewReader(stream), nbytes |-> Len(stream), err |-> "none",
     f |-> [n \in SpsFieldNames |-> 0],
     mark |-> [n \in SpsFieldNames |-> <<-1, -1>>],
     scales |-> <<>>,
     sl_4x4 |-> <<>>, sl_8x8 |-> <<>>,
     sl_default_4x4_flag |-> <<>>, sl_default_8x8_flag |-> <<>>]

\* One read r of the element name:  let name = track!(read)?
SpsTake(st, name, r) ==
    IF st.err # "none" THEN st
    ELSE IF ~r.ok THEN [st EXCEPT !.err = "io"]
    ELSE [st EXCEPT !.rd = r.rd, !.f[name] = r.val,
                    !.mark[name] = <<BitPos(st.rd, st.nbytes), BitPos(r.rd, st.nbytes)>>]

\* let name = track!(reader.read_ue())?
SpsUe(st, name) == SpsTake(st, name, read_ue(st.rd))

\* let name = track!(reader.read_bit())?
SpsBit(st, name) == SpsTake(st, name, read_bit(st.rd))

\* One pass that reads delta_scale: the reader moves on, and the pass is
\* recorded with the next_scale computed and the entry stored
sl_pass(st, r, last_scale, next_scale) ==
    [st EXCEPT !.rd = r.rd,
               !.scales = Append(@, [delta_scale |-> r.val, last_scale |-> last_scale,
                                     next_scale |-> next_scale,
                                     entry |-> IF next_scale = 0 THEN last_scale
                                               ELSE next_scale])]

RECURSIVE sl_decode(_, _, _, _, _, _)
\* An explicitly signalled list: the loop  for j in 0..size, entered with
\* next_scale = 8.  While next_scale is not 0 each pass reads a delta_scale;
\* from the pass that makes next_scale 0 on, no pass reads and every entry
\* left is last_scale.  Gives the state, the list and its "use default" flag.
sl_decode(st, j, size, last_scale, list, flag) ==
    IF j >= size \/ st.err # "none" THEN [st |-> st, list |-> list, flag |-> flag]
    ELSE LET r == read_se(st.rd)
             next_scale == RemT(last_scale + r.val + 256, 256)
         IN IF ~r.ok THEN [st |-> [st EXCEPT !.err = "io"], list |-> list, flag |-> flag]
            ELSE IF next_scale = 0
            THEN [st |-> sl_pass(st, r, last_scale, next_scale),
                  list |-> list \o [k \in 1..(size - j) |-> last_scale],
                  flag |-> (j = 0)]
            ELSE sl_decode(sl_pass(st, r, last_scale, next_scale), j + 1, size, next_scale,
                           Append(list, next_scale), FALSE)

\* A list that is not present: fallback method A (i counts from 0)
sl_fallback(st, i) ==
    IF i \in {0, 3, 6, 7}
    THEN [st EXCEPT !.sl_4x4[i + 1] = default_scaling_list_for_index(i),
                    !.sl_default_4x4_flag[i + 1] = TRUE]
    ELSE IF i \in {1, 2, 4, 5}
    THEN [st EXCEPT !.sl_4x4[i + 1] = st.sl_4x4[i],
                    !.sl_default_4x4_flag[i + 1] = st.sl_default_4x4_flag[i]]
    ELSE [st EXCEPT !.sl_8x8[i - 6 + 1] = st.sl_8x8[i - 8 + 1],
                    !.sl_default_8x8_flag[i - 6 + 1] = st.sl_default_8x8_flag[i - 8 + 1]]

\* The decoded 4x4 list d put in place:  sl_4x4[i][j] = .. ; sl_default_4x4_flag[i] = ..
sl_store_4x4(d, i) ==
    IF d.st.err # "none" THEN d.st
    ELSE [d.st EXCEPT !.sl_4x4[i + 1] = d.list, !.sl_default_4x4_flag[i + 1] = d.flag]

\* The decoded 8x8 list d put in place:  sl_8x8[i - 6][j] = .. ; sl_default_8x8_flag[i - 6] = ..
sl_store_8x8(d, i) ==
    IF d.st.err # "none" THEN d.st
    ELSE [d.st EXCEPT !.sl_8x8[i - 6 + 1] = d.list, !.sl_default_8x8_flag[i - 6 + 1] = d.flag]

\* A list that is present
sl_explicit(st, i) ==
    IF i < 6
    THEN sl_store_4x4(sl_decode(st, 0, 16, 8, <<>>, st.sl_default_4x4_flag[i + 1]), i)
    ELSE sl_store_8x8(sl_decode(st, 0, 64, 8, <<>>, st.sl_default_8x8_flag[i - 6 + 1]), i)

RECURSIVE sl_loop(_, _, _)
\* The loop  for i in 0..entry_count
sl_loop(st, i, entry_count) ==
    IF i >= entry_count \/ st.err # "none" THEN st
    ELSE LET r == read_bit(st.rd)
         IN IF ~r.ok THEN [st EXCEPT !.err = "io"]
            ELSE LET st1 == [st EXCEPT !.rd = r.rd]
                 IN sl_loop(IF r.val = 1 THEN sl_explicit(st1, i) ELSE sl_fallback(st1, i),
                            i + 1, entry_count)

\* The body of  if seq_scaling_matrix_present { .. }
sps_scaling(st) ==
    LET entry_count == IF st.f["chroma_format"] # 3 THEN 8 ELSE 12
    IN sl_loop([st EXCEPT !.sl_4x4 = [i \in 1..entry_count |-> [j \in 1..16 |-> 0]],
                          !.sl_8x8 = [i \in 1..entry_count |-> [j \in 1..64 |-> 0]],
                          !.sl_default_4x4_flag = [i \in 1..entry_count |-> FALSE],
                          !.sl_default_8x8_flag = [i \in 1..entry_count |-> FALSE]],
               0, entry_count)

\* if seq_scaling_matrix_present { .. } after the flag is read
sps_scaling_if_present(st) ==
    IF st.err = "none" /\ st.f["seq_scaling_matrix_present"] = 1 THEN sps_scaling(st) ELSE st

\* The arm of the high profiles: 100 | 110 | 122 | 144 => { .. }.  The reads
\* are nested in the order the code makes them, the first innermost;
\* separate_color_plane is Some(true) for chroma_format 3 and nothing is read for it.
sps_high(st) ==
    sps_scaling_if_present(
        SpsBit(SpsBit(SpsUe(SpsUe(SpsUe(st, "chroma_format"),
                                  "bit_depth_luma_minus_8"),
                            "bit_depth_chroma_minus_8"),
                      "qp_prime_y_zero_transform_bypass"),
               "seq_scaling_matrix_present"))

RECURSIVE sps_ref_frames(_, _)
\* for _ in 0..num_ref_frames_in_pic_order_cnt_cycle { read_ue }
sps_ref_frames(st, k) ==
    IF k = 0 \/ st.err # "none" THEN st
    ELSE LET r == read_ue(st.rd)
         IN IF ~r.ok THEN [st EXCEPT !.err = "io"]
            ELSE sps_ref_frames([st EXCEPT !.rd = r.rd], k - 1)

\* The loop over the count just read
sps_ref_frames_of(st) ==
    IF st.err # "none" THEN st
    ELSE sps_ref_frames(st, st.f["num_ref_frames_in_pic_order_cnt_cycle"])

\* match pic_order_cnt_type { .. }
sps_poc(st) ==
    IF st.err # "none" THEN st
    ELSE IF st.f["pic_order_cnt_type"] = 0 THEN SpsUe(st, "log2_max_pic_order_cnt_lsb_minus4")
    ELSE IF st.f["pic_order_cnt_type"] = 1
    THEN sps_ref_frames_of(
             SpsUe(SpsUe(SpsUe(SpsBit(st, "delta_pic_order_always_zero_flag"),
                               "offset_for_non_ref_pic"),
                         "offset_for_top_to_bottom_field"),
                   "num_ref_frames_in_pic_order_cnt_cycle"))
    ELSE IF st.f["pic_order_cnt_type"] = 2 THEN st
    ELSE [st EXCEPT !.err = "InvalidInput"]

\* if frame_mbs_only_flag == 0 { read_bit }
sps_mbaff(st) ==
    IF st.err = "none" /\ st.f["frame_mbs_only_flag"] = 0
    THEN SpsBit(st, "mb_adaptive_frame_field_flag") ELSE st

\* The four crop offsets: read if frame_cropping_flag == 1, else (0, 0, 0, 0)
sps_crop(st) ==
    IF st.err = "none" /\ st.f["frame_cropping_flag"] = 1
    THEN SpsUe(SpsUe(SpsUe(SpsUe(st, "frame_crop_left_offset"),
                           "frame_crop_right_offset"),
                     "frame_crop_top_offset"),
               "frame_crop_bottom_offset")
    ELSE st

\* From num_ref_frames to the crop offsets, the first read innermost
sps_frame(st) ==
    sps_crop(
        SpsBit(SpsBit(sps_mbaff(
            SpsBit(SpsUe(SpsUe(SpsBit(SpsUe(st, "num_ref_frames"),
                                      "gaps_in_frame_num_value_allowed_flag"),
                               "pic_width_in_mbs_minus_1"),
                         "pic_height_in_map_units_minus_1"),
                   "frame_mbs_only_flag")),
                      "direct_8x8_inference_flag"),
               "frame_cropping_flag"))

\* extended_data = Some(ExtendedConfigurationData { .. })
SpsExtendedData(st) ==
    [some |-> TRUE,
     chroma_format |-> st.f["chroma_format"],
     separate_color_plane |-> IF st.f["chroma_format"] = 3 THEN "Some(true)" ELSE "None",
     bit_depth_luma_minus_8 |-> st.f["bit_depth_luma_minus_8"],
     bit_depth_chroma_minus_8 |-> st.f["bit_depth_chroma_minus_8"],
     qp_prime_y_zero_transform_bypass |-> st.f["qp_prime_y_zero_transform_bypass"] = 1,
     seq_scaling_matrix_present |-> st.f["seq_scaling_matrix_present"] = 1,
     seq_scaling_list_4x4 |-> st.sl_4x4,
     seq_scaling_list_4x4_use_default |-> st.sl_default_4x4_flag,
     seq_scaling_list_8x8 |-> st.sl_8x8,
     seq_scaling_list_8x8_use_default |-> st.sl_default_8x8_flag]

\* Ok(SpsSummary { .. }) with the read marks, or the Err of the first failed read
SpsSummaryOf(input, st) ==
    IF st.err # "none" THEN [kind |-> "err", error |-> st.err]
    ELSE [kind |-> "ok",
          profile_idc |-> input[1],
          constraint_set_flag |-> input[2],
          level_idc |-> input[3],
          pic_width_in_mbs_minus_1 |-> st.f["pic_width_in_mbs_minus_1"],
          pic_height_in_map_units_minus_1 |-> st.f["pic_height_in_map_units_minus_1"],
          frame_mbs_only_flag |-> st.f["frame_mbs_only_flag"],
          frame_crop_left_offset |-> st.f["frame_crop_left_offset"],
          frame_crop_right_offset |-> st.f["frame_crop_right_offset"],
          frame_crop_top_offset |-> st.f["frame_crop_top_offset"],
          frame_crop_bottom_offset |-> st.f["frame_crop_bottom_offset"],
          extended_configuration_data |->
              IF IsHighProfile(input[1]) THEN SpsExtendedData(st) ELSE [some |-> FALSE],
          mark |-> st.mark,
          scales |-> st.scales]

\* match profile_idc { 100 | 110 | 122 | 144 => { .. }  _ => {} }
sps_profile(profile_idc, st) == IF IsHighProfile(profile_idc) THEN sps_high(st) ELSE st

\* SpsSummary::read_from: the three header bytes, then the bit reader's
\* reads, the first innermost
sps_read_from(input) ==
    IF Len(input) < 3 THEN [kind |-> "err", error |-> "io"]
    ELSE SpsSummaryOf(input,
             sps_frame(sps_poc(
                 SpsUe(SpsUe(sps_profile(input[1],
                                         SpsUe(SpsStart(SliceFrom(input, 3)),
                                               "seq_parameter_set_id")),
                             "log2_max_frame_num_minus4"),
                       "pic_order_cnt_type"))))

(***************************************************************************)
(* src/avc.rs: SpsSummary::width and SpsSummary::height.  usize is 64 bits *)
(* wide: a usize is held as its four 16-bit limbs, most significant first. *)
(* A subtraction that underflows panics in a build with overflow checks    *)
(* ("debug") and wraps modulo 2^64 without them ("release").               *)
(***************************************************************************)
RECURSIVE ShrLimbs(_, _)
\* floor(x / 65536^k)
ShrLimbs(x, k) == IF k = 0 THEN x ELSE ShrLimbs(x \div 65536, k - 1)

\* x modulo 2^64, as limbs
U64Limbs(x) == [k \in 1..4 |-> ShrLimbs(x, 4 - k) % 65536]

\* a - b - c on usize, left to right
UsizeSub2(a, b, c, mode) ==
    IF mode = "debug" /\ (a - b < 0 \/ a - b - c < 0)
    THEN [kind |-> "panic"]
    ELSE [kind |-> "ok", val |-> U64Limbs(a - b - c)]

\* SpsSummary::width
width(s, mode) ==
    UsizeSub2((s.pic_width_in_mbs_minus_1 + 1) * 16,
              s.frame_crop_right_offset * 2,
              s.frame_crop_left_offset * 2, mode)

\* SpsSummary::height
height(s, mode) ==
    UsizeSub2((2 - s.frame_mbs_only_flag) * ((s.pic_height_in_map_units_minus_1 + 1) * 16),
              s.frame_crop_bottom_offset * 2,
              s.frame_crop_top_offset * 2, mode)

(***************************************************************************)
(* The SPS payloads handed to read_from: written element by element in the *)
(* order of the H.264 seq_parameter_set_data syntax, which has the         *)
(* separate_colour_plane_flag bit after a chroma_format_idc of 3; payloads *)
(* with chroma_format_idc 3 and no such bit (colour_plane_coded FALSE) are *)
(* handed in as well.                                                      *)
(***************************************************************************)
MaxCrop == 9        \* a crop offset is 0 or MaxCrop
WideMbs == 79       \* pic_width_in_mbs_minus_1 of a 1280 pixel wide picture
HighMbs == 44       \* pic_height_in_map_units_minus_1 of a 720 pixel high picture
WideDown == 300     \* the delta_scale -WideDown lies below -(8 + 256)
WideUp == 1000      \* a delta_scale above 255

\* ue(v) and se(v) as bits
UeBits(v) == WriterBits(write_ue(NewWriter, v))
SeBits(v) == WriterBits(write_se(NewWriter, v))

\* The bits packed into bytes, most significant bit first, the last byte
\* padded with zeros
PackBits(bits) ==
    [k \in 1..((Len(bits) + 7) \div 8) |->
        LET bit(j) == IF 8 * (k - 1) + j <= Len(bits) THEN bits[8 * (k - 1) + j] ELSE 0
        IN 128 * bit(1) + 64 * bit(2) + 32 * bit(3) + 16 * bit(4)
           + 8 * bit(5) + 4 * bit(6) + 2 * bit(7) + bit(8)]

SpsSyntaxes ==
    {x \in [profile_idc : {66, 100},
            chroma_format_idc : {1, 3},
            colour_plane_coded : BOOLEAN,
            separate_colour_plane_flag : {0, 1},
            bit_depth_luma_minus8 : {0, 1},
            scaling : {"absent", "fallback", "explicit", "wide"},
            pic_order_cnt_type : 0..3,
            mbs : {<<0, 0>>, <<WideMbs, HighMbs>>},
            frame_mbs_only_flag : {0, 1},
            frame_cropping_flag : {0, 1},
            crop_lr : {<<0, 0>>, <<0, MaxCrop>>, <<MaxCrop, 0>>},
            crop_tb : {<<0, 0>>, <<0, MaxCrop>>, <<MaxCrop, 0>>},
            cut : {0, 1}] :
        /\ x.profile_idc = 66 =>
               (x.chroma_format_idc = 1 /\ x.bit_depth_luma_minus8 = 0 /\ x.scaling = "absent")
        /\ x.colour_plane_coded => x.chroma_format_idc = 3
        /\ ~x.colour_plane_coded => x.separate_colour_plane_flag = 0
        /\ x.frame_cropping_flag = 0 => (x.crop_lr = <<0, 0>> /\ x.crop_tb = <<0, 0>>)}

\* Lists signalled in the stream: list 0 ends at once (delta -8), list 1
\* holds 10 throughout (deltas 2, -10), list 6 holds 16 (deltas 8, -16).
\* With "wide" deltas: list 0 has the delta -WideDown and list 1 the delta
\* WideUp, each followed by the delta that makes next_scale 0.
ScalingListBits(x, i) ==
    IF x.scaling = "fallback" THEN <<0>>
    ELSE IF x.scaling = "wide"
    THEN (IF i = 0
          THEN <<1>> \o SeBits(0 - WideDown)
                    \o SeBits(0 - RemT(8 - WideDown + 256, 256) - 256)
          ELSE IF i = 1
          THEN <<1>> \o SeBits(WideUp) \o SeBits(0 - RemT(8 + WideUp + 256, 256))
          ELSE <<0>>)
    ELSE IF i = 0 THEN <<1>> \o SeBits(-8)
    ELSE IF i = 1 THEN <<1>> \o SeBits(2) \o SeBits(-10)
    ELSE IF i = 6 THEN <<1>> \o SeBits(8) \o SeBits(-16)
    ELSE <<0>>

RECURSIVE ScalingMatrixBits(_, _, _)
ScalingMatrixBits(x, i, count) ==
    IF i >= count THEN <<>>
    ELSE ScalingListBits(x, i) \o ScalingMatrixBits(x, i + 1, count)

HighProfileBits(x) ==
    UeBits(x.chroma_format_idc)
    \o (IF x.colour_plane_coded THEN <<x.separate_colour_plane_flag>> ELSE <<>>)
    \o UeBits(x.bit_depth_luma_minus8) \o UeBits(0) \o <<0>>
    \o (IF x.scaling = "absent" THEN <<0>>
        ELSE <<1>> \o ScalingMatrixBits(x, 0, IF x.chroma_format_idc # 3 THEN 8 ELSE 12))

PocBits(type) ==
    UeBits(type)
    \o (IF type = 0 THEN UeBits(2)
        ELSE IF type = 1 THEN <<0>> \o SeBits(0) \o SeBits(1) \o UeBits(2) \o SeBits(0) \o SeBits(-1)
        ELSE <<>>)

SpsBits(x) ==
    UeBits(0)
    \o (IF IsHighProfile(x.profile_idc) THEN HighProfileBits(x) ELSE <<>>)
    \o UeBits(0) \o PocBits(x.pic_order_cnt_type)
    \o UeBits(1) \o <<0>>
    \o UeBits(x.mbs[1]) \o UeBits(x.mbs[2])
    \o <<x.frame_mbs_only_flag>> \o (IF x.frame_mbs_only_flag = 0 THEN <<0>> ELSE <<>>)
    \o <<1>> \o <<x.frame_cropping_flag>>
    \o (IF x.frame_cropping_flag = 1
        THEN UeBits(x.crop_lr[1]) \o UeBits(x.crop_lr[2])
             \o UeBits(x.crop_tb[1]) \o UeBits(x.crop_tb[2])
        ELSE <<>>)
    \o <<0, 1>>    \* vui_parameters_present_flag, rbsp_stop_one_bit

\* profile_idc, constraint flags, level_idc, then the bits; cut drops bytes off the end
SpsBytes(x) ==
    LET whole == <<x.profile_idc, 0, 31>> \o PackBits(SpsBits(x))
    IN SubSeq(whole, 1, Len(whole) - x.cut)

SpsInit ==
    /\ \E x \in SpsSyntaxes : sps_input = [syntax |-> x, bytes |-> SpsBytes(x)]
    /\ sps_ret = NoRet
    /\ build \in {"debug", "release"}
    /\ width_ret = NoRet
    /\ height_ret = NoRet
    /\ IoIdle /\ AvcIdle /\ NalIdle /\ HvcIdle

\* SpsSummary::read_from(&bytes[..])
SpsReadFrom ==
    /\ sps_ret.kind = "none"
    /\ sps_ret' = sps_read_from(sps_input.bytes)
    /\ UNCHANGED <<sps_input, build, width_ret, height_ret>>
    /\ UNCHANGED <<ioVars, avcVars, nalVars, hvcVars>>

\* summary.width()
SpsWidth ==
    /\ sps_ret.kind = "ok"
    /\ width_ret.kind = "none"
    /\ width_ret' = width(sps_ret, build)
    /\ UNCHANGED <<sps_input, sps_ret, build, height_ret>>
    /\ UNCHANGED <<ioVars, avcVars, nalVars, hvcVars>>

\* summary.height()
SpsHeight ==
    /\ sps_ret.kind = "ok"
    /\ height_ret.kind = "none"
    /\ height_ret' = height(sps_ret, build)
    /\ UNCHANGED <<sps_input, sps_ret, build, width_ret>>
    /\ UNCHANGED <<ioVars, avcVars, nalVars, hvcVars>>

SpsNext == SpsReadFrom \/ SpsWidth \/ SpsHeight
SpecSps == SpsInit /\ [][SpsNext]_vars

\* The bits of the payload the bit reader is made on (after the three header bytes)
SpsPayloadBits == BytesBits(SliceFrom(sps_input.bytes, 3))

\* read_from has returned the summary of a high-profile SPS
SpsHighParsed == sps_ret.kind = "ok" /\ sps_ret.extended_configuration_data.some

\* C1: in a high-profile SPS with chroma_format_idc 3, read_from consumes one
\* bit right after chroma_format_idc and before bit_depth_luma_minus8 and
\* returns it as separate_color_plane; with any other chroma_format_idc no
\* bit is consumed between the two elements.
C1_SeparateColorPlaneBit ==
    SpsHighParsed =>
        LET e == sps_ret.extended_configuration_data
            after_chroma == sps_ret.mark["chroma_format"][2]
            luma_start == sps_ret.mark["bit_depth_luma_minus_8"][1]
        IN IF e.chroma_format = 3
           THEN /\ luma_start = after_chroma + 1
                /\ e.separate_color_plane =
                       (IF SpsPayloadBits[after_chroma + 1] = 1 THEN "Some(true)"
                        ELSE "Some(false)")
           ELSE luma_start = after_chroma

\* The list-presence bits of the parsed SPS are all 0
AllListsAbsent ==
    /\ SpsHighParsed
    /\ sps_ret.extended_configuration_data.seq_scaling_matrix_present
    /\ LET first == sps_ret.mark["seq_scaling_matrix_present"][2]
           entry_count == IF sps_ret.extended_configuration_data.chroma_format # 3
                          THEN 8 ELSE 12
       IN /\ first + entry_count <= Len(SpsPayloadBits)
          /\ \A k \in 1..entry_count : SpsPayloadBits[first + k] = 0

\* C4: a high-profile SPS with seq_scaling_matrix_present = 1 and every
\* list-presence bit 0 gives the default tables by fallback rule A: 4x4
\* lists 0-2 the 4x4 intra default, 3-5 the 4x4 inter default, the 8x8
\* lists the 8x8 intra and inter defaults in turn, and every entry of both
\* "use default" vectors true.
C4_FallbackGivesDefaults ==
    AllListsAbsent =>
        LET e == sps_ret.extended_configuration_data
            lists_8x8 == (IF e.chroma_format # 3 THEN 8 ELSE 12) - 6
        IN /\ \A i \in 1..3 : e.seq_scaling_list_4x4[i] = DEFAULT_4X4_INTRA_SCALING_LIST
           /\ \A i \in 4..6 : e.seq_scaling_list_4x4[i] = DEFAULT_4X4_INTER_SCALING_LIST
           /\ \A i \in 1..lists_8x8 :
                  e.seq_scaling_list_8x8[i] =
                      (IF i % 2 = 1 THEN DEFAULT_8X8_INTRA_SCALING_LIST
                       ELSE DEFAULT_8X8_INTER_SCALING_LIST)
           /\ \A i \in DOMAIN e.seq_scaling_list_4x4_use_default :
                  e.seq_scaling_list_4x4_use_default[i]
           /\ \A i \in DOMAIN e.seq_scaling_list_8x8_use_default :
                  e.seq_scaling_list_8x8_use_default[i]

\* The call returned the usize that is the integer n
ReturnsInteger(ret, n) == ret.kind = "ok" /\ n >= 0 /\ ret.val = U64Limbs(n)

\* C9: for every summary read_from returns, width() returns
\* (pic_width_in_mbs_minus_1+1)*16 - 2*(crop_right+crop_left) and height()
\* returns (2 - frame_mbs_only_flag)*(pic_height_in_map_units_minus_1+1)*16
\* - 2*(crop_bottom+crop_top), as integers, crop offsets larger than the
\* uncropped size included.
C9_WidthHeightAsIntegers ==
    /\ width_ret.kind # "none" =>
           ReturnsInteger(width_ret,
               (sps_ret.pic_width_in_mbs_minus_1 + 1) * 16
               - 2 * (sps_ret.frame_crop_right_offset + sps_ret.frame_crop_left_offset))
    /\ height_ret.kind # "none" =>
           ReturnsInteger(height_ret,
               (2 - sps_ret.frame_mbs_only_flag)
                   * (sps_ret.pic_height_in_map_units_minus_1 + 1) * 16
               - 2 * (sps_ret.frame_crop_bottom_offset + sps_ret.frame_crop_top_offset))

\* The passes of the scaling-list loops of the returned summary that read a
\* delta_scale, in stream order
ScalePasses == IF sps_ret.kind = "ok" THEN sps_ret.scales ELSE <<>>

\* C13: while read_from decodes an explicitly signalled scaling list, for
\* every delta_scale the stream carries (large negative ones included) the
\* next_scale computed from it lies in 0..255, and every entry stored lies
\* in 1..255.
C13_NextScaleInByteRange ==
    \A k \in DOMAIN ScalePasses :
        /\ ScalePasses[k].next_scale \in 0..255
        /\ ScalePasses[k].entry \in 1..255

\* read_from returned a summary whose explicit lists carried a delta_scale
\* below -(last_scale + 256) and one above 255
C13_Witness ==
    /\ SpsHighParsed
    /\ \E k \in DOMAIN ScalePasses :
           ScalePasses[k].delta_scale < 0 - (ScalePasses[k].last_scale + 256)
    /\ \E k \in DOMAIN ScalePasses : ScalePasses[k].delta_scale > 255

(***************************************************************************)
(* Specification of the signed Exp-Golomb round trip (tests::test_se):     *)
(* values written back to back with write_se, one flush, the values read   *)
(* back with read_se.  Short values written first bring the value written  *)
(* last to every bit position.                                             *)
(***************************************************************************)
SeClaimMax == 500     \* the range of the round trip claimed: -500..=500
MaxSeWrites == 3      \* write_se calls made back to back

SeValues == (-SeClaimMax)..SeClaimMax

\* Values of 1, 3, 5 and 7 bits
SeLead == {0, 1, -2, 4}

\* writer.write_se(v): any value after lead values only
WriteSe ==
    /\ Len(wlog) < MaxSeWrites
    /\ \A i \in 1..Len(wlog) : wlog[i].value \in SeLead
    /\ \E v \in SeValues : WriteStep("write_se", 0, v, write_se(writer, v))

\* reader.read_se(), once per value written; code is the code number the
\* Exp-Golomb code read holds
ReadSe ==
    /\ phase = "read"
    /\ Len(rlog) < Len(wlog)
    /\ LET r == read_se(reader)
       IN /\ reader' = r.rd
          /\ rlog' = Append(rlog, [op |-> "read_se", ok |-> r.ok, val |-> r.val,
                                   code |-> read_exp_golomb_code(reader).val])
    /\ UNCHANGED <<writer, phase, wlog>>
    /\ UNCHANGED <<spsVars, avcVars, nalVars, hvcVars>>

SeInit == IoInit /\ SpsIdle /\ AvcIdle /\ NalIdle /\ HvcIdle
SeNext == WriteSe \/ Flush \/ OpenReader \/ ReadSe
SpecSe == SeInit /\ [][SeNext]_vars

\* The values of the code numbers 0, 1, 2, 3, 4
SeOfCode == <<0, 1, -1, 2, -2>>

\* C11: every v in -500..=500 written with write_se (back to back with
\* others), flushed and read with read_se in the same order, is read back
\* unchanged, and the code numbers 0, 1, 2, 3, 4 read as 0, 1, -1, 2, -2.
C11_SeRoundTrip ==
    \A i \in 1..Len(rlog) :
        /\ rlog[i].ok
        /\ rlog[i].val = wlog[i].value
        /\ rlog[i].code \in 0..4 => rlog[i].val = SeOfCode[rlog[i].code + 1]

\* -500 and 500 read back, each written after 1 + 7 bits at bit position 0
C11_Witness ==
    /\ Len(rlog) = 3
    /\ wlog[3].pre.bit_position = 0
    /\ wlog[3].pre.stream # <<>>
    /\ rlog[3].ok
    /\ rlog[3].val \in {-SeClaimMax, SeClaimMax}
    /\ rlog[1].code \in 0..4

(***************************************************************************)
(* Specification of writing bit by bit (tests::test_bit_by_bit_writing):   *)
(* write_bit calls on a fresh writer, then one flush.                      *)
(***************************************************************************)
MaxBitWrites == 16    \* write_bit calls before the flush: two whole bytes

\* writer.write_bit(bit)
WriteOneBit ==
    /\ Len(wlog) < MaxBitWrites
    /\ \E b \in 0..1 : WriteStep("write_bit", 1, b, write_bit(writer, b))

BitsInit == IoInit /\ SpsIdle /\ AvcIdle /\ NalIdle /\ HvcIdle
BitsNext == WriteOneBit \/ Flush
SpecBits == BitsInit /\ [][BitsNext]_vars

\* The bits written so far, in order
BitsWritten == [i \in 1..Len(wlog) |-> wlog[i].value]

\* C12: N bits written one at a time with write_bit on a fresh writer and
\* then flushed leave exactly ceil(N/8) bytes in the sink: the bits written,
\* most significant first, then zero padding.
C12_BitsThenFlush ==
    phase = "flushed" =>
        /\ Len(writer.stream) = (Len(wlog) + 7) \div 8
        /\ writer.stream = PackBits(BitsWritten)

\* 11 bits flushed: one whole byte and a partial byte, with ones in both
C12_Witness ==
    /\ phase = "flushed"
    /\ Len(wlog) = 11
    /\ wlog[2].value = 1
    /\ wlog[11].value = 1
    /\ Len(writer.stream) = 2

(***************************************************************************)
(* Specification of mixed reads: a source of whole bytes (written with     *)
(* write_byte and flushed), then read_bit and read_byte calls in any order *)
(* on one reader over it.                                                  *)
(***************************************************************************)
MaxSourceLen == 3   \* the bytes of the source
MaxReadCalls == 6   \* the read calls made on the reader

\* Source bytes that differ in their most significant bit
SourceBytes == {1, 128, 170}

\* writer.write_byte(v)
WriteSourceByte ==
    /\ Len(wlog) < MaxSourceLen
    /\ \E v \in SourceBytes : WriteStep("write_byte", 0, v, write_byte(writer, v))

\* The 1-based index in the source of the byte the reader holds
HeldByte(r) == Len(writer.stream) - Len(r.stream)

\* One read call returning r, logged with the source bits it delivered
\* (bit 1 is the most significant bit of the first source byte)
MixedReadStep(op, r, bits) ==
    /\ phase = "read"
    /\ reader' = r.rd
    /\ rlog' = Append(rlog, [op |-> op, ok |-> r.ok, val |-> r.val,
                             at |-> HeldByte(r.rd),
                             bits |-> IF r.ok THEN bits ELSE {}])
    /\ UNCHANGED <<writer, phase, wlog>>
    /\ UNCHANGED <<spsVars, avcVars, nalVars, hvcVars>>

\* reader.read_bit(): delivers bit bit_offset of the byte held after the call
MixedReadBit ==
    /\ Len(rlog) < MaxReadCalls
    /\ MixedReadStep("read_bit", read_bit(reader),
           {8 * (HeldByte(read_bit(reader).rd) - 1) + read_bit(reader).rd.bit_offset})

\* reader.read_byte(): delivers the eight bits of the byte it reads
MixedReadByte ==
    /\ Len(rlog) < MaxReadCalls
    /\ MixedReadStep("read_byte", read_byte(reader),
           {8 * (HeldByte(read_byte(reader).rd) - 1) + k : k \in 1..8})

MixedInit == IoInit /\ SpsIdle /\ AvcIdle /\ NalIdle /\ HvcIdle
MixedNext == WriteSourceByte \/ Flush \/ OpenReader \/ MixedReadBit \/ MixedReadByte
SpecMixed == MixedInit /\ [][MixedNext]_vars

\* C15: in any sequence of read_bit and read_byte calls on one reader no
\* source bit is delivered twice; after read_byte has returned a byte, the
\* next read_bit returns the most significant bit of the following source
\* byte.
C15_NoBitDeliveredTwice ==
    /\ \A i, j \in 1..Len(rlog) : i < j => rlog[i].bits \cap rlog[j].bits = {}
    /\ \A i \in 1..(Len(rlog) - 1) :
           (rlog[i].op = "read_byte" /\ rlog[i].ok
                /\ rlog[i + 1].op = "read_bit" /\ rlog[i + 1].ok)
               => /\ rlog[i].at < Len(writer.stream)
                  /\ rlog[i + 1].val = writer.stream[rlog[i].at + 1] \div 128

\* read_byte returned the first source byte, and the read_bit after it
\* returned a bit, with a source byte still to come
C15_Witness ==
    /\ Len(writer.stream) = 2
    /\ Len(rlog) = 2
    /\ rlog[1].op = "read_byte" /\ rlog[1].ok /\ rlog[1].val = 128
    /\ rlog[2].op = "read_bit" /\ rlog[2].ok
    /\ writer.stream[2] = 1

====
